---------------------------- MODULE Spec2Model ----------------------------
(***************************************************************************)
(* Model of the shipment-tracking portal: the list route                   *)
(* (src/src/app/api/shipments/route.ts), the detail route and the list     *)
(* page (src/src/app/shipments/page.tsx), the detail page and the auth     *)
(* callback page (src/src/app/shipments/[shipment_id]/page.tsx).           *)
(*                                                                         *)
(* Text is modelled as a sequence of one-character strings so that         *)
(* toLowerCase, trim, startsWith, includes and ILIKE are computed, not     *)
(* assumed.  A nullable text column holds NULL, a nullable timestamp is a  *)
(* sequence of length 0 (null) or 1 (<<t>>).                               *)
(***************************************************************************)
EXTENDS Integers, Sequences, FiniteSets, TLC

VARIABLES env, allowed_users, shipments, events, req, resp, calls, row, derived,
          progress, served, changes, callback, listPage, detailPage

vars == <<env, allowed_users, shipments, events, req, resp, calls, row, derived,
          progress, served, changes, callback, listPage, detailPage>>
store == <<env, allowed_users, shipments, events>>
\* What is remembered of the requests answered so far and of the changes
\* made to the membership table; no handler reads it.
history == <<served, changes>>
\* The state of the pages in the browser
page == <<progress, callback, listPage, detailPage>>

-----------------------------------------------------------------------------
(* Bounds of the model *)
MaxMemberships == 2
MaxShipments == 2
MaxListShipments == 3
MaxEvents == 2
MaxTime == 2
MaxEventList == 3
MaxChanges == 2
MaxRows == 3
\* .limit(300) of the list route, scaled down so that "one more than the
\* limit" is a datastore of MaxListShipments rows.
ListLimit == 2

-----------------------------------------------------------------------------
(* Text *)

\* SQL NULL / JS null in a text column: a one-element sequence whose element
\* is no character.
NULL == <<"null">>
\* JS null in a timestamp column.
NoTime == <<>>

LowerCh == <<"a","b","c","d","e","f","g","h","i","j","k","l","m",
             "n","o","p","q","r","s","t","u","v","w","x","y","z">>
UpperCh == <<"A","B","C","D","E","F","G","H","I","J","K","L","M",
             "N","O","P","Q","R","S","T","U","V","W","X","Y","Z">>

toLowerCaseCh(c) ==
    IF \E i \in 1..26 : UpperCh[i] = c
    THEN LowerCh[CHOOSE i \in 1..26 : UpperCh[i] = c]
    ELSE c

toUpperCaseCh(c) ==
    IF \E i \in 1..26 : LowerCh[i] = c
    THEN UpperCh[CHOOSE i \in 1..26 : LowerCh[i] = c]
    ELSE c

toLowerCase(s) == [i \in 1..Len(s) |-> toLowerCaseCh(s[i])]
toUpperCase(s) == [i \in 1..Len(s) |-> toUpperCaseCh(s[i])]

RECURSIVE trimStart(_)
trimStart(s) ==
    IF s # <<>> /\ Head(s) = " " THEN trimStart(Tail(s)) ELSE s

RECURSIVE trimEnd(_)
trimEnd(s) ==
    IF s # <<>> /\ s[Len(s)] = " " THEN trimEnd(SubSeq(s, 1, Len(s) - 1)) ELSE s

trim(s) == trimEnd(trimStart(s))

startsWith(s, p) == Len(s) >= Len(p) /\ SubSeq(s, 1, Len(p)) = p

includes(s, sub) ==
    \E i \in 0..(Len(s) - Len(sub)) : SubSeq(s, i + 1, i + Len(sub)) = sub

\* s.slice(n)
slice(s, n) == SubSeq(s, n + 1, Len(s))

\* v ?? ""
orEmpty(v) == IF v = NULL THEN <<>> ELSE v

\* Boolean(v) of a nullable text value
truthy(v) == v # NULL /\ v # <<>>

-----------------------------------------------------------------------------
(* The datastore as the two routes query it *)

\* value ILIKE pattern (PostgREST "customer_id.ilike.<pattern>"): SQL pattern
\* match ignoring letter case; "_" matches any one character, "%" (and the
\* PostgREST alias "*") any run of characters.
RECURSIVE likeMatch(_, _)
likeMatch(s, p) ==
    IF p = <<>> THEN s = <<>>
    ELSE IF Head(p) = "%" \/ Head(p) = "*"
         THEN likeMatch(s, Tail(p)) \/ (s # <<>> /\ likeMatch(Tail(s), p))
    ELSE IF Head(p) = "_"
         THEN s # <<>> /\ likeMatch(Tail(s), Tail(p))
    ELSE s # <<>> /\ Head(s) = Head(p) /\ likeMatch(Tail(s), Tail(p))

\* NULL ILIKE p is NULL, which a WHERE clause treats as false.
ilike(value, pattern) ==
    value # NULL /\ likeMatch(toLowerCase(value), toLowerCase(pattern))

\* ORDER BY <timestamp> DESC: a is placed strictly before b.  The routes pass
\* { ascending: false } and no nullsFirst option, so the datastore's default
\* for a descending order applies: NULLs come first.
placedBefore(a, b) ==
    \/ a = NoTime /\ b # NoTime
    \/ a # NoTime /\ b # NoTime /\ a[1] > b[1]

\* rows: a sequence of records with a timestamp field t.  Rows with equal
\* timestamps keep their table order.
RECURSIVE orderDesc(_)
orderDesc(rows) ==
    IF rows = <<>> THEN <<>>
    ELSE LET first(i) == \A j \in 1..Len(rows) :
                            /\ ~placedBefore(rows[j].t, rows[i].t)
                            /\ (j < i => placedBefore(rows[i].t, rows[j].t))
             i == CHOOSE k \in 1..Len(rows) : first(k)
         IN <<rows[i]>> \o orderDesc(SubSeq(rows, 1, i - 1) \o SubSeq(rows, i + 1, Len(rows)))

limit(rows, n) == SubSeq(rows, 1, IF Len(rows) < n THEN Len(rows) ELSE n)

\* from("allowed_users").select("customer_id").eq("email", email)
membershipsOf(email) == {m \in allowed_users : m.email = email}

\* Faulty variant of customerIdsOf: the .filter(Boolean) is left out.
customerIdsUnfiltered(memberships) ==
    {m.customer_id : m \in memberships}

\* memberships.map((m) => m.customer_id).filter(Boolean)
customerIdsOf(memberships) ==
    {m.customer_id : m \in {x \in memberships : truthy(x.customer_id)}}

\* One condition "customer_id.ilike.<id>" per caller scope, joined by .or()
scopeFilter(shipment, customerIds) ==
    \E id \in customerIds : ilike(shipment.customer_id, id)

\* from("shipments").select(<columns without customer_id>).or(...)
\*   .order("last_event_time", { ascending: false }).limit(300)
shipmentsQuery(customerIds) ==
    LET keyed == [i \in 1..Len(shipments) |->
                     [t |-> shipments[i].last_event_time, r |-> shipments[i]]]
        hit(k) == scopeFilter(k.r, customerIds)
        found == limit(orderDesc(SelectSeq(keyed, hit)), ListLimit)
    IN [i \in 1..Len(found) |->
           [shipment_id |-> found[i].r.shipment_id,
            last_event_time |-> found[i].r.last_event_time]]

\* from("events").select(...).eq("shipment_id", id)
\*   .order("event_time", { ascending: false })
eventsOf(shipmentId) ==
    LET keyed == [i \in 1..Len(events) |->
                     [t |-> events[i].event_time, r |-> events[i]]]
        hit(k) == k.r.shipment_id = shipmentId
        found == orderDesc(SelectSeq(keyed, hit))
    IN [i \in 1..Len(found) |->
           [event_time |-> found[i].r.event_time,
            event_code |-> found[i].r.event_code]]

\* The same query with .limit(1).maybeSingle(), then
\* latestEvent?.event_code || null.  A failed read resolves to
\* { data: null, error }, and only data is destructured.
latestEventCode(shipmentId, readOk) ==
    LET found == limit(eventsOf(shipmentId), 1)
    IN IF ~readOk \/ found = <<>> THEN NULL
       ELSE IF truthy(found[1].event_code) THEN found[1].event_code ELSE NULL

\* from("shipments").select(<columns with customer_id>)
\*   .eq("shipment_id", id).maybeSingle(): a sequence of length 0 or 1.
shipmentById(shipmentId) ==
    LET hit(s) == s.shipment_id = shipmentId
    IN SelectSeq(shipments, hit)

-----------------------------------------------------------------------------
(* The two route handlers *)

\* !supabaseUrl || !anonKey || !serviceKey
envMissing(e) ==
    ~truthy(e.supabaseUrl) \/ ~truthy(e.anonKey) \/ ~truthy(e.serviceKey)

\* Faulty variant of bearerToken: the scheme is not looked at, whatever
\* follows the first seven characters is the token.
bearerTokenAnyScheme(authorization) ==
    trim(slice(orEmpty(authorization), 7))

\* const authHeader = req.headers.get("authorization") || "";
\* authHeader.toLowerCase().startsWith("bearer ") ? authHeader.slice(7).trim() : ""
bearerToken(authorization) ==
    LET authHeader == orEmpty(authorization)
    IN IF startsWith(toLowerCase(authHeader), <<"b", "e", "a", "r", "e", "r", " ">>)
       THEN trim(slice(authHeader, 7))
       ELSE <<>>

\* userErr || !user?.email
unauthorized(user) == user.error \/ user.email = ""

\* Faulty variant of hasAccess: any membership grants access.
hasAccessAnyScope(customerIds, shipment) ==
    customerIds # {}

\* customerIds.some((id) => id.toLowerCase() === shipment.customer_id?.toLowerCase())
hasAccess(customerIds, shipment) ==
    \E id \in customerIds :
        shipment.customer_id # NULL /\ toLowerCase(id) = toLowerCase(shipment.customer_id)

Call(op, arg, ok) == [op |-> op, arg |-> arg, ok |-> ok]

\* NextResponse.json(body, { status }) together with the calls the handler
\* made to the identity provider and the datastore before answering.
Reply(status, error, c) ==
    [r |-> [status |-> status, error |-> error, email |-> "",
            data |-> <<>>, shipment |-> <<>>, events |-> <<>>],
     c |-> c]

\* Promise.all over the returned shipments: one latest-event read each.
withStatus(found, evFail) ==
    [i \in 1..Len(found) |->
        [shipment_id |-> found[i].shipment_id,
         last_event_time |-> found[i].last_event_time,
         latest_event_code |->
             latestEventCode(found[i].shipment_id, found[i].shipment_id \notin evFail)]]

eventCalls(found, evFail) ==
    [i \in 1..Len(found) |->
        Call("events", found[i].shipment_id, found[i].shipment_id \notin evFail)]

\* GET /api/shipments.  user is the identity provider's answer to getUser(),
\* memOk and shipOk say whether the two table reads succeed, evFail names the
\* shipments whose latest-event read fails.
listRoute(authorization, user, memOk, shipOk, evFail) ==
    IF envMissing(env) THEN Reply(500, "Server env missing", <<>>)
    ELSE IF bearerToken(authorization) = <<>> THEN Reply(401, "Unauthorized", <<>>)
    ELSE LET c1 == <<Call("getUser", user.email, ~user.error)>>
    IN IF unauthorized(user) THEN Reply(401, "Unauthorized", c1)
    ELSE LET c2 == Append(c1, Call("allowed_users", user.email, memOk))
             memberships == membershipsOf(user.email)
             customerIds == customerIdsOf(memberships)
    IN IF ~memOk THEN Reply(500, "membershipError", c2)
    ELSE IF memberships = {} \/ customerIds = {}
         THEN [r |-> [Reply(200, "", c2).r EXCEPT !.email = user.email], c |-> c2]
    ELSE LET c3 == Append(c2, Call("shipments", "", shipOk))
             found == shipmentsQuery(customerIds)
    IN IF ~shipOk THEN Reply(500, "shipmentError", c3)
    ELSE [r |-> [Reply(200, "", c3).r EXCEPT !.email = user.email,
                                             !.data = withStatus(found, evFail)],
          c |-> c3 \o eventCalls(found, evFail)]

\* GET /api/shipments/[shipment_id]
detailRoute(authorization, shipmentId, user, memOk, shipOk, evOk) ==
    IF envMissing(env) THEN Reply(500, "Server env missing", <<>>)
    ELSE IF bearerToken(authorization) = <<>> THEN Reply(401, "Unauthorized", <<>>)
    ELSE LET c1 == <<Call("getUser", user.email, ~user.error)>>
    IN IF unauthorized(user) THEN Reply(401, "Unauthorized", c1)
    ELSE LET c2 == Append(c1, Call("allowed_users", user.email, memOk))
             memberships == membershipsOf(user.email)
             customerIds == customerIdsOf(memberships)
    IN IF ~memOk THEN Reply(500, "membershipError", c2)
    ELSE IF memberships = {} THEN Reply(403, "No customer access", c2)
    ELSE LET c3 == Append(c2, Call("shipments", shipmentId, shipOk))
             shipment == shipmentById(shipmentId)
    IN IF ~shipOk THEN Reply(500, "shipmentError", c3)
    ELSE IF shipment = <<>> THEN Reply(404, "Shipment not found", c3)
    ELSE IF ~hasAccess(customerIds, shipment[1])
         THEN Reply(403, "You don't have access to this shipment", c3)
    ELSE LET c4 == Append(c3, Call("events", shipmentId, evOk))
    IN IF ~evOk THEN Reply(500, "eventsError", c4)
    ELSE [r |-> [Reply(200, "", c4).r EXCEPT !.shipment = shipment,
                                             !.events = eventsOf(shipmentId)],
          c |-> c4]

-----------------------------------------------------------------------------
(* The list page's status derivation *)

\* The event-code rules of deriveStatus, in the order of their if
\* statements; "" when none returns.
byEventCode(eventCode) ==
    IF includes(eventCode, <<"D", "E", "L", "I", "V", "E", "R", "E", "D">>) \/ eventCode = <<"D", "E", "L">>
    THEN "Delivered"
    ELSE IF \/ includes(eventCode, <<"C", "U", "S", "T", "O", "M", "S", "_", "R", "E", "L", "E", "A", "S", "E", "D">>)
            \/ eventCode = <<"C", "U", "S">>
            \/ includes(eventCode, <<"C", "L", "E", "A", "R", "E", "D">>)
    THEN "Customs Released"
    ELSE IF includes(eventCode, <<"D", "I", "S", "C", "H", "A", "R", "G", "E", "D">>) \/ eventCode = <<"D", "I", "S">>
    THEN "Discharged"
    ELSE IF includes(eventCode, <<"A", "T", "D">>) \/ includes(eventCode, <<"D", "E", "P", "A", "R", "T", "E", "D">>)
    THEN "In Transit"
    ELSE IF \/ includes(eventCode, <<"B", "O", "O", "K", "E", "D">>)
            \/ includes(eventCode, <<"R", "E", "A", "D", "Y">>)
            \/ includes(eventCode, <<"D", "O", "C", "S", "_", "R", "E", "C", "E", "I", "V", "E", "D">>)
            \/ includes(eventCode, <<"C", "A", "R", "G", "O", "_", "R", "E", "C", "E", "I", "V", "E", "D">>)
    THEN "Pre-Departure"
    ELSE ""

\* The current_status rules of deriveStatus, in the order of their if
\* statements; "" when none returns.
byCurrentStatus(raw) ==
    IF includes(raw, <<"d", "e", "l", "i", "v", "e", "r">>)
    THEN "Delivered"
    ELSE IF /\ includes(raw, <<"c", "u", "s", "t", "o", "m">>)
            /\ (includes(raw, <<"r", "e", "l", "e", "a", "s", "e">>) \/ includes(raw, <<"c", "l", "e", "a", "r", "e", "d">>))
    THEN "Customs Released"
    ELSE IF includes(raw, <<"d", "i", "s", "c", "h", "a", "r", "g">>)
    THEN "Discharged"
    ELSE IF includes(raw, <<"t", "r", "a", "n", "s", "i", "t">>)
    THEN "In Transit"
    ELSE IF \/ includes(raw, <<"p", "r", "e">>)
            \/ includes(raw, <<"b", "o", "o", "k", "e", "d">>)
            \/ includes(raw, <<"r", "e", "a", "d", "y">>)
    THEN "Pre-Departure"
    ELSE ""

\* Faulty variant of deriveStatus: the event code is not trimmed.
deriveStatusUntrimmed(s) ==
    LET eventCode == toUpperCase(orEmpty(s.latest_event_code))
        raw == toLowerCase(trim(orEmpty(s.current_status)))
    IN IF byEventCode(eventCode) # "" THEN byEventCode(eventCode)
       ELSE IF byCurrentStatus(raw) # "" THEN byCurrentStatus(raw)
       ELSE "In Transit"

\* Faulty variant of deriveStatus: current_status is looked at first.
deriveStatusRawFirst(s) ==
    LET eventCode == trim(toUpperCase(orEmpty(s.latest_event_code)))
        raw == toLowerCase(trim(orEmpty(s.current_status)))
    IN IF byCurrentStatus(raw) # "" THEN byCurrentStatus(raw)
       ELSE IF byEventCode(eventCode) # "" THEN byEventCode(eventCode)
       ELSE "In Transit"

\* function deriveStatus(s: Shipment): DerivedStatus
deriveStatus(s) ==
    LET eventCode == trim(toUpperCase(orEmpty(s.latest_event_code)))
        raw == toLowerCase(trim(orEmpty(s.current_status)))
    IN IF byEventCode(eventCode) # "" THEN byEventCode(eventCode)
       ELSE IF byCurrentStatus(raw) # "" THEN byCurrentStatus(raw)
       ELSE "In Transit"

-----------------------------------------------------------------------------
(* The detail page's milestone index *)

\* const MILESTONES: Milestone[], in order; MILESTONES[i + 1] is the
\* source's MILESTONES[i].
MILESTONES ==
    <<[key |-> "booked",
       codes |-> {<<"B", "O", "O", "K", "E", "D">>}],
      [key |-> "ready",
       codes |-> {<<"R", "E", "A", "D", "Y">>}],
      [key |-> "docs",
       codes |-> {<<"D", "O", "C", "S", "_", "R", "E", "C", "E", "I", "V", "E", "D">>}],
      [key |-> "cargo",
       codes |-> {<<"C", "A", "R", "G", "O", "_", "R", "E", "C", "E", "I", "V", "E", "D">>}],
      [key |-> "departed",
       codes |-> {<<"A", "T", "D">>}],
      [key |-> "discharged",
       codes |-> {<<"D", "I", "S", "C", "H", "A", "R", "G", "E", "D">>}],
      [key |-> "customs",
       codes |-> {<<"C", "U", "S", "T", "O", "M", "S", "_", "R", "E", "L", "E", "A", "S", "E", "D">>}],
      [key |-> "delivered",
       codes |-> {<<"D", "E", "L", "I", "V", "E", "R", "E", "D">>}]>>

\* (e.event_code ?? "").toUpperCase().trim()
normalizedCode(e) == trim(toUpperCase(orEmpty(e.event_code)))

\* new Set(events.map(...).filter(Boolean))
codeSet(evs) ==
    {normalizedCode(evs[k]) : k \in 1..Len(evs)} \ {<<>>}

\* for (let i = MILESTONES.length - 1; i >= 0; i--) ... return i;  return 0;
RECURSIVE scanMilestones(_, _)
scanMilestones(codes, i) ==
    IF i < 0 THEN 0
    ELSE IF \E c \in MILESTONES[i + 1].codes : c \in codes THEN i
    ELSE scanMilestones(codes, i - 1)

\* The index of the milestone of the most recent event (events arrive
\* latest first), 0 when it has none.
inferMilestoneIndexMostRecent(evs) ==
    IF Len(evs) = 0 THEN 0
    ELSE scanMilestones({normalizedCode(evs[1])} \ {<<>>}, Len(MILESTONES) - 1)

\* function inferMilestoneIndex(events: EventRow[]): number
inferMilestoneIndex(evs) ==
    IF Len(evs) = 0 THEN 0
    ELSE scanMilestones(codeSet(evs), Len(MILESTONES) - 1)

-----------------------------------------------------------------------------
(* The auth callback page *)

\* Where the effect goes on after the code flow: the hash parameters are
\* read, and the first await that follows is chosen.
afterCode(cb) ==
    IF truthy(cb.error) THEN "getSessionAfterError"
    ELSE IF truthy(cb.access_token) /\ truthy(cb.refresh_token) THEN "setSession"
    ELSE "getSession"

\* if (data.session) replace("/shipments") else replace("/login")
afterError(session) == IF session THEN "/shipments" ELSE "/login"

\* Faulty variant of finalCheck: the session is not looked at.
finalCheckUnchecked(session) == "/shipments"

\* if (!data.session) replace("/login") else replace("/shipments")
finalCheck(session) == IF ~session THEN "/login" ELSE "/shipments"

-----------------------------------------------------------------------------
(* The list page: sort state, filter and sort *)

\* A number of the page is <<n>>; Number.NaN is the empty sequence.
NaN == <<>>
isNaN(v) == v = NaN

Digits == <<"0", "1", "2", "3", "4", "5", "6", "7", "8", "9">>
digit(c) == (CHOOSE i \in 1..10 : Digits[i] = c) - 1

\* new Date(v).getTime() for the date texts of the model: a text made of
\* digits is the time it writes, any other text is not a date.
RECURSIVE getTime(_)
getTime(v) ==
    IF Len(v) = 0 THEN NaN
    ELSE IF \E i \in 1..Len(v) : \A k \in 1..10 : Digits[k] # v[i] THEN NaN
    ELSE IF Len(v) = 1 THEN <<digit(v[1])>>
    ELSE <<10 * getTime(SubSeq(v, 1, Len(v) - 1))[1] + digit(v[Len(v)])>>

\* function parseDateMs(v: string | null)
parseDateMs(v) ==
    IF ~truthy(v) THEN NaN
    ELSE LET t == getTime(v) IN IF isNaN(t) THEN NaN ELSE t

\* function asLower(v: unknown)
asLower(v) == toLowerCase(orEmpty(v))

\* function getReference(s: Shipment)
getReference(s) ==
    IF truthy(s.hawb) THEN s.hawb
    ELSE IF truthy(s.mawb) THEN s.mawb
    ELSE IF truthy(s.po_number) THEN s.po_number
    ELSE s.shipment_id

\* function getRoute(s: Shipment)
getRoute(s) == orEmpty(s.origin) \o <<"->">> \o orEmpty(s.destination)

\* The text of a status label
statusText(label) ==
    CASE label = "Delivered" -> <<"D", "e", "l", "i", "v", "e", "r", "e", "d">>
      [] label = "Customs Released" ->
            <<"C", "u", "s", "t", "o", "m", "s", " ", "R", "e", "l", "e", "a", "s", "e", "d">>
      [] label = "Discharged" -> <<"D", "i", "s", "c", "h", "a", "r", "g", "e", "d">>
      [] label = "In Transit" -> <<"I", "n", " ", "T", "r", "a", "n", "s", "i", "t">>
      [] label = "Pre-Departure" ->
            <<"P", "r", "e", "-", "D", "e", "p", "a", "r", "t", "u", "r", "e">>

\* The collation order of the characters of lower-case text: space,
\* punctuation, symbols, digits, letters.
Collation == <<" ", "-", "_", "->">> \o Digits \o LowerCh
collate(c) ==
    IF \E i \in 1..Len(Collation) : Collation[i] = c
    THEN CHOOSE i \in 1..Len(Collation) : Collation[i] = c
    ELSE 0

\* String(a).localeCompare(String(b)): -1, 0 or 1
RECURSIVE localeCompare(_, _)
localeCompare(a, b) ==
    IF Len(a) = 0 /\ Len(b) = 0 THEN 0
    ELSE IF Len(a) = 0 THEN -1
    ELSE IF Len(b) = 0 THEN 1
    ELSE IF collate(a[1]) < collate(b[1]) THEN -1
    ELSE IF collate(a[1]) > collate(b[1]) THEN 1
    ELSE localeCompare(Tail(a), Tail(b))

SortKeys == {"reference", "route", "status", "eta_updated", "last_event_time"}
DateKeys == {"eta_updated", "last_event_time"}

\* The direction a newly chosen key starts with, always ascending: a faulty
\* variant of defaultDir.
defaultDirAscending(nextKey) == "asc"

\* nextKey === "reference" || nextKey === "route" || nextKey === "status"
\*   ? "asc" : "desc"
defaultDir(nextKey) ==
    IF nextKey = "reference" \/ nextKey = "route" \/ nextKey = "status"
    THEN "asc"
    ELSE "desc"

\* function toggleSort(nextKey: SortKey)
toggleSort(lp, nextKey) ==
    IF nextKey = lp.sortKey
    THEN [lp EXCEPT !.sortDir = IF @ = "asc" THEN "desc" ELSE "asc"]
    ELSE [lp EXCEPT !.sortKey = nextKey, !.sortDir = defaultDir(nextKey)]

\* rows.filter((s) => [s.hawb, s.mawb, s.po_number, s.customer_reference,
\*   s.shipment_id].filter(Boolean).some((v) => String(v).toLowerCase().includes(q)))
matches(s, q) ==
    \E v \in {s.hawb, s.mawb, s.po_number, s.customer_reference, s.shipment_id} :
        truthy(v) /\ includes(toLowerCase(v), q)

\* const q = query.trim().toLowerCase(); let list = rows; if (q) list = ...
filtered(rows, query) ==
    LET q == toLowerCase(trim(query))
        test(s) == matches(s, q)
    IN IF q # <<>> THEN SelectSeq(rows, test) ELSE rows

\* av, bv of the comparator: the switch (sortKey)
sortValue(s, sortKey) ==
    CASE sortKey = "reference" -> asLower(getReference(s))
      [] sortKey = "route" -> asLower(getRoute(s))
      [] sortKey = "status" -> asLower(statusText(deriveStatus(s)))
      [] sortKey = "eta_updated" -> parseDateMs(s.eta_updated)
      [] sortKey = "last_event_time" -> parseDateMs(s.last_event_time)

\* Faulty variant of compare: the direction is applied to the rows without a
\* date as well.
compareDirected(av, bv, sortKey, sortDir) ==
    LET dirMul == IF sortDir = "asc" THEN 1 ELSE -1
    IN IF sortKey \in DateKeys
       THEN IF isNaN(av) THEN 1 * dirMul
            ELSE IF isNaN(bv) THEN -1 * dirMul
            ELSE (av[1] - bv[1]) * dirMul
       ELSE localeCompare(av, bv) * dirMul

\* The comparator (a, b) => ... of the sort after its switch, av and bv
\* being the sort values of a and b; Number.isNaN of a text is false.
compare(av, bv, sortKey, sortDir) ==
    LET dirMul == IF sortDir = "asc" THEN 1 ELSE -1
    IN IF sortKey \in DateKeys
       THEN IF isNaN(av) THEN 1
            ELSE IF isNaN(bv) THEN -1
            ELSE (av[1] - bv[1]) * dirMul
       ELSE localeCompare(av, bv) * dirMul

\* The orders [...list].sort(comparator) can return: Array.prototype.sort is
\* stable, and where the comparator is not consistent (two rows without a
\* date are each reported greater than the other) the order is left to the
\* engine.  p[k] is the place in list of the k-th row returned; a row comes
\* directly before another only if one of the two comparator calls says so,
\* or both report a tie and the rows were in that order.
RECURSIVE placeRows(_, _, _)
placeRows(placed, left, cmp) ==
    IF left = {} THEN {placed}
    ELSE UNION {placeRows(Append(placed, j), left \ {j}, cmp) :
                  j \in {k \in left :
                            \/ placed = <<>>
                            \/ LET i == placed[Len(placed)]
                               IN \/ cmp[i, k] < 0
                                  \/ cmp[k, i] > 0
                                  \/ cmp[i, k] = 0 /\ cmp[k, i] = 0 /\ i < k}}

sortOrders(list, sortKey, sortDir) ==
    LET n == Len(list)
        val == [i \in 1..n |-> sortValue(list[i], sortKey)]
        cmp == [i \in 1..n, j \in 1..n |-> compare(val[i], val[j], sortKey, sortDir)]
    IN placeRows(<<>>, 1..n, cmp)

\* const filteredAndSorted = useMemo(...): every list the memo can hold
filteredAndSorted(lp) ==
    LET list == filtered(lp.rows, lp.query)
    IN {[k \in 1..Len(list) |-> list[p[k]]] :
           p \in sortOrders(list, lp.sortKey, lp.sortDir)}

\* What the table body shows
tableBody(lp) ==
    IF lp.loading THEN "Loading shipments"
    ELSE IF Len(lp.view) = 0 THEN "No shipments found."
    ELSE "rows"

\* A render of the page after its state changed
render(lp) ==
    {[[lp EXCEPT !.view = v] EXCEPT !.body = tableBody([lp EXCEPT !.view = v])] :
        v \in filteredAndSorted(lp)}

-----------------------------------------------------------------------------
(* The detail page: loading a shipment *)

\* catch (err) { console.error(...); setError("Failed to load shipment") }
\* finally { setLoading(false) }
loadFailed(dp, fetched) ==
    [dp EXCEPT !.logged = TRUE, !.error = "Failed to load shipment",
               !.loading = FALSE, !.fetched = fetched]

\* if (!res.ok) { setError(json.error || "Unable to load shipment");
\*   setLoading(false); return }
notOk(dp, error, fetched) ==
    [dp EXCEPT !.error = IF error # "" THEN error ELSE "Unable to load shipment",
               !.loading = FALSE, !.fetched = fetched]

\* What the card of the detail page shows
cardBody(dp) ==
    IF dp.loading THEN "Loading shipment"
    ELSE IF dp.error # "" THEN dp.error
    ELSE IF dp.shipment = <<>> THEN "Shipment not found."
    ELSE "shipment"

-----------------------------------------------------------------------------
(* The values the model draws its inputs and its datastore from *)

Present == <<"x">>
FullEnv == [supabaseUrl |-> Present, anonKey |-> Present, serviceKey |-> Present]
EnvValues ==
    {FullEnv,
     [FullEnv EXCEPT !.supabaseUrl = NULL],
     [FullEnv EXCEPT !.anonKey = NULL],
     [FullEnv EXCEPT !.serviceKey = NULL]}

ACME == <<"A", "C", "M", "E">>
acme == <<"a", "c", "m", "e">>
ac_e == <<"a", "c", "_", "e">>
beta == <<"b", "e", "t", "a">>
ATD == <<"A", "T", "D">>
DEL == <<"D", "E", "L">>
CARGO_RECEIVED == <<"C", "A", "R", "G", "O", "_", "R", "E", "C", "E", "I", "V", "E", "D">>

\* The rows of the list page's table, one per shipment: with and without
\* hawb, with dates that parse ("2", "10"), that do not ("x"), empty and null.
PageRow(id, hawb, status, eta, last) ==
    [shipment_id |-> id, hawb |-> hawb, mawb |-> NULL, po_number |-> NULL,
     customer_reference |-> NULL, origin |-> <<"a">>, destination |-> NULL,
     current_status |-> status, eta_updated |-> eta, last_event_time |-> last,
     latest_event_code |-> NULL]

RowKinds ==
    {PageRow(<<"s", "1">>, <<"h", "2">>, NULL, <<"2">>, <<"1", "0">>),
     PageRow(<<"s", "2">>, NULL, <<"D", "e", "l", "i", "v", "e", "r", "e", "d">>,
             <<>>, <<"x">>),
     PageRow(<<"s", "3">>, <<"H", "1">>, NULL, <<"1", "0">>, <<"2">>),
     PageRow(<<"s", "4">>, <<>>, NULL, <<"x">>, NULL)}

\* Lists of at most n rows of different shipments
RowLists(n) ==
    UNION {{rs \in [1..k -> RowKinds] : \A i, j \in 1..k : i # j => rs[i] # rs[j]} :
              k \in 0..n}

\* What the search box holds: nothing, " H ", "s1"
Queries == {<<>>, <<" ", "H", " ">>, <<"s", "1">>}

\* Error statuses other than 401, as text
ErrorStatuses == {"403", "404", "500"}

\* The JSON body of an error response, { error: "..." }, as the page reads
\* it: json.data ?? [] and json.email ?? ""
ErrorBodies == {[data |-> <<>>, email |-> ""]}

\* A parameter of the callback URL: absent, empty, or with a value
UrlParams == {NULL, <<>>, <<"v">>}

\* Event codes of the detail page's events: absent, " atd ", "ATD",
\* "CARGO_RECEIVED", "Delivered", "BOOKED", "ATDS".
MilestoneInputs ==
    {NULL,
     <<" ", "a", "t", "d", " ">>,
     ATD,
     CARGO_RECEIVED,
     <<"D", "e", "l", "i", "v", "e", "r", "e", "d">>,
     <<"B", "O", "O", "K", "E", "D">>,
     <<"A", "T", "D", "S">>}

\* The Authorization header as Headers.get returns it: absent, "Bearer g",
\* "bearer g", "Basic abc", "Bearer".
AuthHeaders ==
    {NULL,
     <<"B", "e", "a", "r", "e", "r", " ", "g">>,
     <<"b", "e", "a", "r", "e", "r", " ", "g">>,
     <<"B", "a", "s", "i", "c", " ", "a", "b", "c">>,
     <<"B", "e", "a", "r", "e", "r">>}

\* What the identity provider answers to getUser(): a user with an email, a
\* user without one, an error.
UserResults ==
    {[error |-> FALSE, email |-> "alice@wpl"],
     [error |-> FALSE, email |-> ""],
     [error |-> TRUE, email |-> ""]}

ShipmentId(i) == <<"S1", "S2", "S3", "S4", "S5">>[i]
RequestIds == {ShipmentId(i) : i \in 1..MaxShipments} \cup {"S0"}

TimeValues == {NoTime} \cup {<<t>> : t \in 1..MaxTime}

MemberRows ==
    [email : {"alice@wpl"}, customer_id : {NULL, <<>>, ACME, ac_e, beta}]
    \cup {[email |-> "bob@wpl", customer_id |-> beta]}

MemberTables(n) == {M \in SUBSET MemberRows : Cardinality(M) <= n}

\* Tables of at most n shipments S1..Sk, k <= n, in table order.
ShipmentTables(n, scopes, times) ==
    UNION {{[i \in 1..k |-> [shipment_id |-> ShipmentId(i),
                             customer_id |-> f[i].c,
                             last_event_time |-> f[i].t]] :
               f \in [1..k -> [c : scopes, t : times]]} : k \in 0..n}

EventTables(n, ids, times, codes) ==
    UNION {[1..k -> [shipment_id : ids, event_time : times, event_code : codes]] :
              k \in 0..n}

EventCodes ==
    {NULL,
     <<>>,   \* ""
     <<"D", "E", "L", "I", "V", "E", "R", "E", "D">>,   \* "DELIVERED"
     <<"d", "e", "l", "i", "v", "e", "r", "e", "d">>,   \* "delivered"
     <<"d", "e", "l">>,   \* "del"
     <<" ", "D", "E", "L", " ">>,   \* " DEL "
     <<"D", "E", "L", "A", "Y">>,   \* "DELAY"
     <<"C", "U", "S">>,   \* "CUS"
     <<"C", "U", "S", "T", "O", "M", "S", "_", "R", "E", "L", "E", "A", "S", "E", "D">>,   \* "CUSTOMS_RELEASED"
     <<"C", "L", "E", "A", "R", "E", "D">>,   \* "CLEARED"
     <<"D", "I", "S">>,   \* "DIS"
     <<"D", "I", "S", "C", "H", "A", "R", "G", "E", "D">>,   \* "DISCHARGED"
     <<"A", "T", "D">>,   \* "ATD"
     <<"D", "E", "P", "A", "R", "T", "E", "D">>,   \* "DEPARTED"
     <<"B", "O", "O", "K", "E", "D">>,   \* "BOOKED"
     <<"R", "E", "A", "D", "Y">>,   \* "READY"
     <<"D", "O", "C", "S", "_", "R", "E", "C", "E", "I", "V", "E", "D">>,   \* "DOCS_RECEIVED"
     <<"C", "A", "R", "G", "O", "_", "R", "E", "C", "E", "I", "V", "E", "D">>,   \* "CARGO_RECEIVED"
     <<"A", "R", "R", "I", "V", "E", "D">>,   \* "ARRIVED"
     <<"N", "O", "T", "_", "D", "E", "L", "I", "V", "E", "R", "E", "D", "_", "A", "T", "D">>,   \* "NOT_DELIVERED_ATD"
     <<"C", "L", "E", "A", "R", "E", "D", "_", "D", "E", "P", "A", "R", "T", "E", "D">>}   \* "CLEARED_DEPARTED"

RawStatuses ==
    {NULL,
     <<>>,   \* ""
     <<"I", "n", " ", "T", "r", "a", "n", "s", "i", "t">>,   \* "In Transit"
     <<"D", "e", "l", "i", "v", "e", "r", "e", "d">>,   \* "Delivered"
     <<" ", "D", "E", "L", "I", "V", "E", "R", "E", "D", " ">>,   \* " DELIVERED "
     <<"C", "u", "s", "t", "o", "m", "s", " ", "R", "e", "l", "e", "a", "s", "e", "d">>,   \* "Customs Released"
     <<"c", "u", "s", "t", "o", "m", "s", " ", "c", "l", "e", "a", "r", "e", "d">>,   \* "customs cleared"
     <<"C", "u", "s", "t", "o", "m", "s", " ", "H", "o", "l", "d">>,   \* "Customs Hold"
     <<"D", "i", "s", "c", "h", "a", "r", "g", "e", "d">>,   \* "Discharged"
     <<"P", "r", "e", "-", "D", "e", "p", "a", "r", "t", "u", "r", "e">>,   \* "Pre-Departure"
     <<"B", "o", "o", "k", "e", "d">>,   \* "Booked"
     <<"R", "e", "a", "d", "y", " ", "f", "o", "r", " ", "p", "i", "c", "k", "u", "p">>,   \* "Ready for pickup"
     <<"R", "e", "l", "e", "a", "s", "e", "d">>,   \* "Released"
     <<"U", "n", "k", "n", "o", "w", "n">>}   \* "Unknown"

-----------------------------------------------------------------------------
(* Specifications *)

NoReq == [endpoint |-> "none", authorization |-> NULL, shipment_id |-> ""]
NoRow == [latest_event_code |-> NULL, current_status |-> NULL]
\* useState<EventRow[]>([]) of the detail page, before its first render
NoProgress ==
    [events |-> <<>>, milestoneIndex |-> -1, before |-> -1, change |-> "none",
     added |-> [event_code |-> NULL]]

\* No header has been clicked yet
NoClick == [key |-> "", fromKey |-> "", fromDir |-> ""]

\* The list page after construction: the useState initial values, the body
\* of its first render, nothing fetched yet
NoListPage ==
    [query |-> <<>>, rows |-> <<>>, loading |-> TRUE, email |-> "",
     sortKey |-> "last_event_time", sortDir |-> "desc",
     view |-> <<>>, body |-> "Loading shipments", href |-> "", logged |-> FALSE,
     fetched |-> "pending", click |-> NoClick]

\* The detail page after construction: the useState initial values, the
\* body of its first render, nothing fetched yet; shipment is <<>> (null)
\* or <<s>>
NoDetailPage ==
    [shipment |-> <<>>, events |-> <<>>, loading |-> TRUE, error |-> "",
     body |-> "Loading shipment", href |-> "", logged |-> FALSE,
     fetched |-> "pending"]

\* The callback page before it is opened
NoCallback ==
    [code |-> NULL, error |-> NULL, access_token |-> NULL, refresh_token |-> NULL,
     session |-> FALSE, pc |-> "closed", redirects |-> <<>>, hash |-> FALSE,
     checked |-> FALSE, failed |-> ""]

\* No request has been answered yet
NoServed ==
    [endpoint |-> "none", email |-> "", shipment_id |-> "", status |-> 0,
     scopes |-> {}]

\* The pages before anything is loaded into them, no request answered and
\* no membership changed
PageIdle ==
    /\ progress = NoProgress
    /\ callback = NoCallback
    /\ listPage = NoListPage
    /\ detailPage = NoDetailPage
    /\ served = NoServed
    /\ changes = 0

\* A state in which no request has arrived and the datastore is empty
ServerIdle ==
    /\ env = FullEnv
    /\ allowed_users = {}
    /\ shipments = <<>>
    /\ events = <<>>
    /\ req = NoReq
    /\ resp = Reply(0, "", <<>>).r
    /\ calls = <<>>
    /\ row = NoRow
    /\ derived = ""
    /\ served = NoServed
    /\ changes = 0

InitIdle ==
    /\ req = NoReq
    /\ resp = Reply(0, "", <<>>).r
    /\ calls = <<>>
    /\ row = NoRow
    /\ derived = ""
    /\ PageIdle

\* Configurations, and datastores that differ in who holds which scope and
\* in who owns a shipment.
Init ==
    /\ env \in EnvValues
    /\ allowed_users \in MemberTables(MaxMemberships)
    /\ shipments \in ShipmentTables(MaxShipments, {NULL, acme, beta}, {<<1>>})
    /\ events = <<[shipment_id |-> "S1", event_time |-> <<1>>, event_code |-> ATD]>>
    /\ InitIdle

\* Datastores that differ in the shipments' last-event times.
InitOrder ==
    /\ env = FullEnv
    /\ allowed_users = {[email |-> "alice@wpl", customer_id |-> ACME]}
    /\ shipments \in ShipmentTables(MaxListShipments, {acme, beta}, TimeValues)
    /\ events = <<>>
    /\ InitIdle

\* Datastores that differ in the events of the shipments.
InitEvents ==
    /\ env = FullEnv
    /\ allowed_users = {[email |-> "alice@wpl", customer_id |-> ACME]}
    /\ shipments \in ShipmentTables(MaxShipments, {acme}, {<<1>>})
    /\ events \in EventTables(MaxEvents, {"S1", "S2"}, TimeValues, {ATD, DEL, <<>>})
    /\ InitIdle

\* Rows of the list page that differ in event code and raw status text.
InitStatus ==
    /\ env = FullEnv
    /\ allowed_users = {}
    /\ shipments = <<>>
    /\ events = <<>>
    /\ req = NoReq
    /\ resp = Reply(0, "", <<>>).r
    /\ calls = <<>>
    /\ row \in [latest_event_code : EventCodes, current_status : RawStatuses]
    /\ derived = ""
    /\ PageIdle

\* The outcomes of a call the handler makes only when reached is true; an
\* outcome nothing reads is held at dflt.
Outcomes(reached, all, dflt) == IF reached THEN all ELSE {dflt}

\* A behaviour follows one request from its arrival to its response.  A
\* handler reads env and the datastore and nothing a request leaves behind.
Idle == req.endpoint = "none"

ListGET ==
    /\ Idle
    /\ \E authorization \in AuthHeaders :
       \E user \in Outcomes(~envMissing(env) /\ bearerToken(authorization) # <<>>,
                            UserResults, [error |-> TRUE, email |-> ""]) :
       \E memOk \in Outcomes(~unauthorized(user), BOOLEAN, TRUE) :
       \E shipOk \in Outcomes(~unauthorized(user) /\ memOk, BOOLEAN, TRUE) :
       \E evFail \in Outcomes(~unauthorized(user) /\ memOk /\ shipOk,
                              SUBSET {shipments[i].shipment_id : i \in 1..Len(shipments)},
                              {}) :
           LET out == listRoute(authorization, user, memOk, shipOk, evFail)
           IN /\ req' = [endpoint |-> "list", authorization |-> authorization,
                         shipment_id |-> ""]
              /\ resp' = out.r
              /\ calls' = out.c
              /\ UNCHANGED <<store, row, derived, page, history>>

DetailGET ==
    /\ Idle
    /\ \E authorization \in AuthHeaders, shipmentId \in RequestIds :
       \E user \in Outcomes(~envMissing(env) /\ bearerToken(authorization) # <<>>,
                            UserResults, [error |-> TRUE, email |-> ""]) :
       \E memOk \in Outcomes(~unauthorized(user), BOOLEAN, TRUE) :
       \E shipOk \in Outcomes(~unauthorized(user) /\ memOk, BOOLEAN, TRUE) :
       \E evOk \in Outcomes(~unauthorized(user) /\ memOk /\ shipOk, BOOLEAN, TRUE) :
           LET out == detailRoute(authorization, shipmentId, user, memOk, shipOk, evOk)
           IN /\ req' = [endpoint |-> "detail", authorization |-> authorization,
                         shipment_id |-> shipmentId]
              /\ resp' = out.r
              /\ calls' = out.c
              /\ UNCHANGED <<store, row, derived, page, history>>

\* const status = deriveStatus(s) when a row is rendered
RenderStatus ==
    /\ derived = ""
    /\ derived' = deriveStatus(row)
    /\ UNCHANGED <<store, req, resp, calls, row, page, history>>

\* Event lists of the detail page: the events of a response, latest first
EventLists(n) ==
    UNION {[1..k -> {[event_code |-> c] : c \in MilestoneInputs}] : k \in 0..n}

InitMilestone ==
    /\ ServerIdle
    /\ progress \in {[NoProgress EXCEPT !.events = es] : es \in EventLists(MaxEventList)}
    /\ callback = NoCallback
    /\ listPage = NoListPage
    /\ detailPage = NoDetailPage

\* setEvents(es) followed by the render's
\* useMemo(() => inferMilestoneIndex(events), [events])
setEvents(es, change, added) ==
    /\ progress' = [events |-> es,
                    milestoneIndex |-> inferMilestoneIndex(es),
                    before |-> progress.milestoneIndex,
                    change |-> change,
                    added |-> added]
    /\ UNCHANGED <<store, req, resp, calls, row, derived, history, callback, listPage, detailPage>>

\* The first render of a loaded event list
RenderProgress ==
    /\ progress.milestoneIndex = -1
    /\ setEvents(progress.events, "load", progress.added)

\* A reload returns the same events in another order
ReorderEvents ==
    /\ progress.milestoneIndex # -1
    /\ \E i \in 1..(Len(progress.events) - 1) :
          setEvents([k \in 1..Len(progress.events) |->
                        IF k = i THEN progress.events[i + 1]
                        ELSE IF k = i + 1 THEN progress.events[i]
                        ELSE progress.events[k]],
                    "reorder", progress.added)

\* A reload returns one of the events twice
DuplicateEvent ==
    /\ progress.milestoneIndex # -1
    /\ Len(progress.events) < MaxEventList
    /\ \E i \in 1..Len(progress.events) :
          setEvents(Append(progress.events, progress.events[i]),
                    "duplicate", progress.added)

\* A reload returns one more event
AddEvent ==
    /\ progress.milestoneIndex # -1
    /\ Len(progress.events) < MaxEventList
    /\ \E c \in MilestoneInputs :
          setEvents(<<[event_code |-> c]>> \o progress.events,
                    "add", [event_code |-> c])

\* The datastore of the membership changes: S1 of scope acme, S2 of scope
\* beta, one event.
InitMembership ==
    /\ env = FullEnv
    /\ allowed_users \in MemberTables(MaxMemberships)
    /\ shipments = <<[shipment_id |-> "S1", customer_id |-> acme,
                      last_event_time |-> <<1>>],
                    [shipment_id |-> "S2", customer_id |-> beta,
                      last_event_time |-> <<1>>]>>
    /\ events = <<[shipment_id |-> "S1", event_time |-> <<1>>, event_code |-> ATD]>>
    /\ InitIdle

\* return NextResponse.json(...): the handler's invocation ends and leaves
\* nothing behind in the server; the next request finds it idle.
EndRequest ==
    /\ ~Idle
    /\ served' = [endpoint |-> req.endpoint,
                  email |-> IF Len(calls) >= 2 THEN calls[2].arg ELSE "",
                  shipment_id |-> req.shipment_id,
                  status |-> resp.status,
                  scopes |-> IF Len(calls) >= 2
                             THEN customerIdsOf(membershipsOf(calls[2].arg))
                             ELSE {}]
    /\ req' = NoReq
    /\ resp' = Reply(0, "", <<>>).r
    /\ calls' = <<>>
    /\ UNCHANGED <<store, row, derived, page, changes>>

\* A row of allowed_users is deleted between two requests.
RemoveMembership ==
    /\ Idle
    /\ changes < MaxChanges
    /\ \E m \in allowed_users :
          allowed_users' = allowed_users \ {m}
    /\ changes' = changes + 1
    /\ UNCHANGED <<env, shipments, events, req, resp, calls, row, derived, page, served>>

\* A row is inserted into allowed_users between two requests.
AddMembership ==
    /\ Idle
    /\ changes < MaxChanges
    /\ Cardinality(allowed_users) < MaxMemberships
    /\ \E m \in MemberRows \ allowed_users :
          allowed_users' = allowed_users \cup {m}
    /\ changes' = changes + 1
    /\ UNCHANGED <<env, shipments, events, req, resp, calls, row, derived, page, served>>

\* The callback page is opened with a URL (?code=..., #error=...,
\* #access_token=...&refresh_token=...) in a browser with or without a
\* session.
InitCallback ==
    /\ ServerIdle
    /\ progress = NoProgress
    /\ listPage = NoListPage
    /\ detailPage = NoDetailPage
    /\ callback \in {[NoCallback EXCEPT !.code = c, !.error = e,
                                        !.access_token = a, !.refresh_token = r,
                                        !.session = s, !.pc = "effect",
                                        !.hash = (truthy(e) \/ truthy(a) \/ truthy(r))] :
                        c \in UrlParams, e \in UrlParams, a \in UrlParams,
                        r \in UrlParams, s \in BOOLEAN}

\* window.location.replace(target); return
redirect(cb, target, failed) ==
    [cb EXCEPT !.pc = "done", !.redirects = Append(@, target), !.failed = failed]

\* catch (e) { window.location.replace("/login") }
thrown(cb) == redirect(cb, "/login", "thrown")

\* The outcomes of an awaited call of the auth client
Settled == {"ok", "error", "throws"}

\* A step of the callback, from one await to the next
CallbackStep(cb) ==
    /\ callback' = cb
    /\ UNCHANGED <<store, req, resp, calls, row, derived, history, progress, listPage, detailPage>>

\* useEffect runs: const code = sp.get("code"); if (code) await exchange...
CallbackEffect ==
    /\ callback.pc = "effect"
    /\ CallbackStep(IF truthy(callback.code)
                    THEN [callback EXCEPT !.pc = "exchangeCodeForSession"]
                    ELSE [callback EXCEPT !.pc = afterCode(callback)])

\* await supabase.auth.exchangeCodeForSession(code) settles
ExchangeCodeForSession ==
    /\ callback.pc = "exchangeCodeForSession"
    /\ \E outcome \in Settled :
          CallbackStep(
            CASE outcome = "throws" -> thrown(callback)
              [] outcome = "error" -> redirect(callback, "/login", "exchange")
              [] outcome = "ok" ->
                    [callback EXCEPT !.session = TRUE, !.pc = afterCode(callback)])

\* if (err) { const { data } = await supabase.auth.getSession(); ... }
GetSessionAfterError ==
    /\ callback.pc = "getSessionAfterError"
    /\ \E outcome \in {"ok", "throws"} :
          CallbackStep(
            IF outcome = "throws" THEN thrown(callback)
            ELSE redirect([callback EXCEPT !.checked = callback.session],
                          afterError(callback.session),
                          IF callback.session THEN "" ELSE "error")) 

\* await supabase.auth.setSession({ access_token, refresh_token }) settles
SetSession ==
    /\ callback.pc = "setSession"
    /\ \E outcome \in Settled :
          CallbackStep(
            CASE outcome = "throws" -> thrown(callback)
              [] outcome = "error" -> redirect(callback, "/login", "setSession")
              [] outcome = "ok" ->
                    \* window.history.replaceState({}, document.title, "/auth/callback")
                    [callback EXCEPT !.session = TRUE, !.hash = FALSE,
                                     !.pc = "getSession"])

\* Final session check
GetSession ==
    /\ callback.pc = "getSession"
    /\ \E outcome \in {"ok", "throws"} :
          CallbackStep(
            IF outcome = "throws" THEN thrown(callback)
            ELSE redirect([callback EXCEPT !.checked = callback.session],
                          finalCheck(callback.session),
                          IF callback.session THEN "" ELSE "session"))

\* The list page is opened.
InitListPage ==
    /\ ServerIdle
    /\ progress = NoProgress
    /\ callback = NoCallback
    /\ listPage = NoListPage
    /\ detailPage = NoDetailPage

\* A state change of the list page and the render that follows it
ListPageStep(lp) ==
    /\ listPage' \in render(lp)
    /\ UNCHANGED <<store, req, resp, calls, row, derived, history, progress, callback, detailPage>>

\* catch (err) { console.error(...) } finally { setLoading(false) }
caught(lp, fetched) == [lp EXCEPT !.logged = TRUE, !.loading = FALSE, !.fetched = fetched]

\* window.location.href = "/login"; return; finally { setLoading(false) }
toLogin(lp, fetched) == [lp EXCEPT !.href = "/login", !.loading = FALSE, !.fetched = fetched]

\* The effect of the list page, from getSession to setLoading(false); the
\* page's state changes only in its last synchronous stretch.
LoadShipments ==
    /\ listPage.fetched = "pending"
    /\ \/ ListPageStep(caught(listPage, "getSession throws"))
       \/ ListPageStep(toLogin(listPage, "no session"))
       \/ ListPageStep(caught(listPage, "network error"))
       \/ ListPageStep(toLogin(listPage, "401"))
       \/ \E status \in ErrorStatuses :
             \/ ListPageStep(caught(listPage, status))
             \/ \E json \in ErrorBodies :
                   ListPageStep([listPage EXCEPT !.rows = json.data,
                                                 !.email = json.email,
                                                 !.loading = FALSE,
                                                 !.fetched = status])
       \/ \E rs \in RowLists(MaxRows) :
             ListPageStep([listPage EXCEPT !.rows = rs, !.email = "alice@wpl",
                                           !.loading = FALSE, !.fetched = "200"])

\* onClick={() => toggleSort(k)} of a column header
ToggleSort ==
    \E k \in SortKeys :
        ListPageStep([toggleSort(listPage, k) EXCEPT
                         !.click = [key |-> k, fromKey |-> listPage.sortKey,
                                    fromDir |-> listPage.sortDir]])

\* onChange={(e) => setQuery(e.target.value)} of the search box
SetQuery ==
    \E q \in Queries \ {listPage.query} :
        ListPageStep([listPage EXCEPT !.query = q])

\* A state change of the detail page and the render that follows it
DetailPageStep(dp) ==
    /\ detailPage' = [dp EXCEPT !.body = cardBody(dp)]
    /\ UNCHANGED <<store, req, resp, calls, row, derived, history, progress, callback,
                   listPage>>

\* The effect of the detail page, from getSession to setLoading(false)
LoadShipment ==
    /\ detailPage.fetched = "pending"
    /\ \/ DetailPageStep(loadFailed(detailPage, "getSession throws"))
       \/ DetailPageStep([detailPage EXCEPT !.href = "/login", !.loading = FALSE,
                                            !.fetched = "no session"])
       \/ DetailPageStep(loadFailed(detailPage, "network error"))
       \/ DetailPageStep([detailPage EXCEPT !.href = "/login", !.loading = FALSE,
                                            !.fetched = "401"])
       \/ \E status \in ErrorStatuses :
             \/ DetailPageStep(loadFailed(detailPage, status))
             \/ \E error \in {"", "Forbidden"} :
                   DetailPageStep(notOk(detailPage, error, status))
       \/ \E sh \in {<<>>} \cup {<<r>> : r \in RowKinds}, es \in EventLists(1) :
             DetailPageStep([detailPage EXCEPT !.shipment = sh, !.events = es,
                                              !.loading = FALSE, !.fetched = "200"])

Next == ListGET \/ DetailGET
NextLoad == LoadShipments \/ LoadShipment
NextListPage == LoadShipments \/ ToggleSort \/ SetQuery
NextCallback ==
    \/ CallbackEffect
    \/ ExchangeCodeForSession
    \/ GetSessionAfterError
    \/ SetSession
    \/ GetSession
NextMembership ==
    ListGET \/ DetailGET \/ EndRequest \/ RemoveMembership \/ AddMembership
NextMilestone == RenderProgress \/ ReorderEvents \/ DuplicateEvent \/ AddEvent
NextStatus == RenderStatus

Spec == Init /\ [][Next]_vars
SpecOrder == InitOrder /\ [][Next]_vars
SpecEvents == InitEvents /\ [][Next]_vars
SpecStatus == InitStatus /\ [][NextStatus]_vars
SpecMilestone == InitMilestone /\ [][NextMilestone]_vars
SpecMembership == InitMembership /\ [][NextMembership]_vars
SpecListPage == InitListPage /\ [][NextListPage]_vars
\* The two pages load, nothing is clicked.
SpecLoad == InitListPage /\ [][NextLoad]_vars
SpecCallback == InitCallback /\ [][NextCallback]_vars
\* Every awaited call of the auth client settles, and the effect then runs on.
SpecCallbackFair == SpecCallback /\ WF_vars(NextCallback)

-----------------------------------------------------------------------------
(* What the claims speak about *)

Answered(endpoint) == req.endpoint = endpoint

\* The provider resolved the token to a user with an email: the handler went
\* on to read the membership table for that email.
Verified == Len(calls) >= 2
CallerEmail == IF Verified THEN calls[2].arg ELSE ""

\* Every datastore read the handler issued succeeded.
ReadsOk == \A i \in 1..Len(calls) : calls[i].op # "getUser" => calls[i].ok
DatastoreReads == {i \in 1..Len(calls) : calls[i].op # "getUser"}

\* The caller's membership scopes: the non-empty scope values of the
\* membership rows of the caller's email.
ScopesOf(email) ==
    {m.customer_id : m \in
        {x \in allowed_users : x.email = email /\ x.customer_id # NULL /\ x.customer_id # <<>>}}

\* Two scopes are equal ignoring letter case.
SameScope(a, b) == a # NULL /\ b # NULL /\ toLowerCase(a) = toLowerCase(b)

InScope(shipment, email) ==
    \E c \in ScopesOf(email) : SameScope(c, shipment.customer_id)

Stored(shipmentId) ==
    {shipments[i] : i \in {j \in 1..Len(shipments) : shipments[j].shipment_id = shipmentId}}

\* The Authorization header has the form "Bearer <token>".
BearerForm(authorization) ==
    /\ authorization # NULL
    /\ Len(authorization) > 7
    /\ toLowerCase(SubSeq(authorization, 1, 6)) = <<"b", "e", "a", "r", "e", "r">>
    /\ authorization[7] = " "
    /\ \E i \in 8..Len(authorization) : authorization[i] # " "

-----------------------------------------------------------------------------
(* C1 *)

\* C1: the detail endpoint answers 200, with the shipment and its events,
\* only if a membership scope of the verified caller equals the shipment's
\* owning scope ignoring letter case; when the shipment exists and no caller
\* scope matches (a null owning scope, a caller without memberships) and the
\* reads of the request succeed, the answer is 403; without a matching scope
\* no shipment or event data is returned.
C1_DetailOnlyWithinScope ==
    Answered("detail") =>
        LET granted == \E s \in Stored(req.shipment_id) : InScope(s, CallerEmail)
        IN /\ resp.status = 200 => granted
           /\ (Verified /\ ReadsOk /\ Stored(req.shipment_id) # {} /\ ~granted)
                 => resp.status = 403
           /\ ~granted => resp.shipment = <<>> /\ resp.events = <<>>
           /\ resp.status # 200 => resp.shipment = <<>> /\ resp.events = <<>>

\* A caller who holds a scope is refused a stored shipment of another scope.
C1_Witness ==
    /\ Answered("detail")
    /\ resp.status = 403
    /\ ScopesOf(CallerEmail) # {}
    /\ \E s \in Stored(req.shipment_id) : s.customer_id # NULL

-----------------------------------------------------------------------------
(* C2 *)

\* C2: a detail request with a valid token for an identifier that is not in
\* the datastore answers 404 for every membership set of the caller, the
\* empty set included (the reads of the request succeeding).
C2_MissingShipmentIs404 ==
    (Answered("detail") /\ Verified /\ ReadsOk /\ Stored(req.shipment_id) = {})
        => resp.status = 404

-----------------------------------------------------------------------------
(* C3 *)

\* What the detail endpoint answers the same caller for a shipment, all reads
\* succeeding.
DetailStatus(shipmentId) ==
    detailRoute(req.authorization, shipmentId,
                [error |-> FALSE, email |-> CallerEmail], TRUE, TRUE, TRUE).r.status

\* C3: scope matching is the same case-insensitive equality in both
\* endpoints: every shipment of a 200 list response has an owning scope equal,
\* ignoring letter case, to a scope of the caller, and the detail endpoint
\* grants 200 for exactly the shipments the list returns.
C3_SameMatchInBothEndpoints ==
    (Answered("list") /\ resp.status = 200) =>
        LET listed == {resp.data[i].shipment_id : i \in 1..Len(resp.data)}
        IN /\ \A id \in listed : \A s \in Stored(id) : InScope(s, CallerEmail)
           /\ \A id \in listed : DetailStatus(id) = 200
           /\ \A i \in 1..Len(shipments) :
                 DetailStatus(shipments[i].shipment_id) = 200
                    => (shipments[i].shipment_id \in listed \/ Len(resp.data) = ListLimit)

-----------------------------------------------------------------------------
(* C4 *)

\* C4: a verified caller with no membership, or whose memberships all have an
\* empty scope value, gets 200 with an empty list from the list endpoint
\* after the membership read alone (no shipments query, no event query), and
\* 403 from the detail endpoint for every identifier that exists.
C4_NoScopeCaller ==
    (Verified /\ ReadsOk /\ ScopesOf(CallerEmail) = {}) =>
        /\ Answered("list") =>
              /\ resp.status = 200
              /\ resp.data = <<>>
              /\ Len(calls) = 2
        /\ (Answered("detail") /\ Stored(req.shipment_id) # {}) => resp.status = 403

\* The caller has membership rows, all with an empty scope value, and was
\* answered by the list endpoint.
C4_Witness ==
    /\ Answered("list")
    /\ Verified
    /\ {m \in allowed_users : m.email = CallerEmail} # {}
    /\ ScopesOf(CallerEmail) = {}
    /\ resp.status = 200
    /\ shipments # <<>>

-----------------------------------------------------------------------------
(* C5 *)

\* C5: in a list request, if any underlying read fails (the membership
\* lookup, the shipments query, one of the latest-event lookups) the answer
\* is 500 and no shipment data is returned; a 200 answer is produced only
\* when every read of the request succeeded.
C5_AnyFailedReadIs500 ==
    Answered("list") =>
        /\ ~ReadsOk => resp.status = 500 /\ resp.data = <<>>
        /\ resp.status = 200 => ReadsOk

-----------------------------------------------------------------------------
(* C6 *)

CallRank(op) ==
    CASE op = "getUser" -> 1
      [] op = "allowed_users" -> 2
      [] op = "shipments" -> 3
      [] op = "events" -> 4

\* C6: both endpoints check configuration, token, scopes, data in that order:
\* with a configuration value missing the answer is 500 and the identity
\* provider is not contacted; with the Authorization header absent or not of
\* the form "Bearer <token>", the token rejected by the provider, or the user
\* without an email, the answer is 401 and no datastore read is issued.
C6_ChecksInOrder ==
    ~Answered("none") =>
        /\ envMissing(env) => resp.status = 500 /\ calls = <<>>
        /\ (~envMissing(env) /\ ~BearerForm(req.authorization))
              => resp.status = 401 /\ calls = <<>>
        /\ (calls # <<>> /\ (~calls[1].ok \/ calls[1].arg = ""))
              => resp.status = 401 /\ Len(calls) = 1
        /\ resp.status = 401 => DatastoreReads = {}
        /\ calls # <<>> => calls[1].op = "getUser"
        /\ \A i \in 1..Len(calls), j \in 1..Len(calls) :
              i < j => CallRank(calls[i].op) <= CallRank(calls[j].op)
                       /\ (CallRank(calls[j].op) < 4 => CallRank(calls[i].op) < CallRank(calls[j].op))

\* The provider rejected a well-formed bearer token.
C6_Witness ==
    /\ ~Answered("none")
    /\ BearerForm(req.authorization)
    /\ Len(calls) = 1
    /\ ~calls[1].ok
    /\ resp.status = 401

-----------------------------------------------------------------------------
(* C7 *)

EventsStored(shipmentId) ==
    {events[i] : i \in {j \in 1..Len(events) : events[j].shipment_id = shipmentId}}

\* e is the latest of the events es: none of them has a later event_time
\* (an event without a time is later than none).
Latest(e, es) ==
    /\ e \in es
    /\ \A o \in es : o.event_time # NoTime =>
           e.event_time # NoTime /\ o.event_time[1] <= e.event_time[1]

\* C7: in every 200 list response each shipment's latest_event_code is the
\* event_code (an empty code counting as none) of the event with the greatest
\* event_time among the events of that same shipment, and null when the
\* shipment has no events.
C7_LatestEventCode ==
    (Answered("list") /\ resp.status = 200) =>
        \A i \in 1..Len(resp.data) :
            LET es == EventsStored(resp.data[i].shipment_id)
                code == resp.data[i].latest_event_code
            IN IF es = {} THEN code = NULL
               ELSE \E e \in es : Latest(e, es) /\ orEmpty(code) = orEmpty(e.event_code)

-----------------------------------------------------------------------------
(* C8 *)

\* Timestamp a is no later than timestamp b, both being set.
NoLater(a, b) == a # NoTime /\ b # NoTime /\ a[1] <= b[1]

\* C8: the list endpoint returns at most ListLimit shipments, each matching
\* the caller's scopes, ordered by last-event time descending; of more
\* matching shipments than that it returns the ListLimit most recent ones:
\* every omitted matching shipment that has a last-event time has one no
\* later than that of every returned shipment.
C8_MostRecentFirstTruncated ==
    (Answered("list") /\ resp.status = 200 /\ ScopesOf(CallerEmail) # {}) =>
        LET listed == {resp.data[i].shipment_id : i \in 1..Len(resp.data)}
            matching == {shipments[i] : i \in {j \in 1..Len(shipments) :
                             InScope(shipments[j], CallerEmail)}}
        IN /\ Len(resp.data) <= ListLimit
           /\ Cardinality(listed) = Len(resp.data)
           /\ listed \subseteq {m.shipment_id : m \in matching}
           /\ Len(resp.data) = IF Cardinality(matching) < ListLimit
                               THEN Cardinality(matching) ELSE ListLimit
           /\ \A i \in 1..Len(resp.data), j \in 1..Len(resp.data) :
                 (/\ i < j
                  /\ resp.data[i].last_event_time # NoTime
                  /\ resp.data[j].last_event_time # NoTime)
                    => NoLater(resp.data[j].last_event_time, resp.data[i].last_event_time)
           /\ \A m \in matching :
                 (m.shipment_id \notin listed /\ m.last_event_time # NoTime) =>
                    \A i \in 1..Len(resp.data) :
                        NoLater(m.last_event_time, resp.data[i].last_event_time)

-----------------------------------------------------------------------------
(* C9 *)

Labels == {"Delivered", "Customs Released", "Discharged", "In Transit", "Pre-Departure"}

RuleLabel(k) ==
    <<"Delivered", "Customs Released", "Discharged", "In Transit", "Pre-Departure">>[k]

\* The k-th event-code rule matches the normalized code c.
EventRule(k, c) ==
    CASE k = 1 -> includes(c, <<"D", "E", "L", "I", "V", "E", "R", "E", "D">>) \/ c = <<"D", "E", "L">>
      [] k = 2 -> includes(c, <<"C", "U", "S", "T", "O", "M", "S", "_", "R", "E", "L", "E", "A", "S", "E", "D">>) \/ c = <<"C", "U", "S">> \/ includes(c, <<"C", "L", "E", "A", "R", "E", "D">>)
      [] k = 3 -> includes(c, <<"D", "I", "S", "C", "H", "A", "R", "G", "E", "D">>) \/ c = <<"D", "I", "S">>
      [] k = 4 -> includes(c, <<"A", "T", "D">>) \/ includes(c, <<"D", "E", "P", "A", "R", "T", "E", "D">>)
      [] k = 5 -> \E w \in {<<"B", "O", "O", "K", "E", "D">>, <<"R", "E", "A", "D", "Y">>,
                            <<"D", "O", "C", "S", "_", "R", "E", "C", "E", "I", "V", "E", "D">>,
                            <<"C", "A", "R", "G", "O", "_", "R", "E", "C", "E", "I", "V", "E", "D">>} : includes(c, w)

\* The k-th raw-status rule matches the normalized status text r.
RawRule(k, r) ==
    CASE k = 1 -> includes(r, <<"d", "e", "l", "i", "v", "e", "r">>)
      [] k = 2 -> /\ includes(r, <<"c", "u", "s", "t", "o", "m">>)
                  /\ \E w \in {<<"r", "e", "l", "e", "a", "s", "e">>, <<"c", "l", "e", "a", "r", "e", "d">>} : includes(r, w)
      [] k = 3 -> includes(r, <<"d", "i", "s", "c", "h", "a", "r", "g">>)
      [] k = 4 -> includes(r, <<"t", "r", "a", "n", "s", "i", "t">>)
      [] k = 5 -> \E w \in {<<"p", "r", "e">>, <<"b", "o", "o", "k", "e", "d">>, <<"r", "e", "a", "d", "y">>} : includes(r, w)

FirstOf(K) == CHOOSE k \in K : \A o \in K : k <= o

\* The label the ordered rules give an event code and a raw status text.
RuleStatus(code, status) ==
    LET c == trim(toUpperCase(orEmpty(code)))
        r == trim(toLowerCase(orEmpty(status)))
        byCode == {k \in 1..5 : EventRule(k, c)}
        byRaw == {k \in 1..5 : RawRule(k, r)}
    IN IF byCode # {} THEN RuleLabel(FirstOf(byCode))
       ELSE IF byRaw # {} THEN RuleLabel(FirstOf(byRaw))
       ELSE "In Transit"

\* C9: deriveStatus is total and first-match-wins: for every event code and
\* raw status text (null included) it returns one of the five labels, that of
\* the first matching event-code rule (after uppercase and trim), otherwise
\* of the first matching raw-status rule (after lowercase and trim),
\* otherwise In Transit.
C9_DeriveStatusFirstMatch ==
    derived # "" =>
        /\ derived \in Labels
        /\ derived = RuleStatus(row.latest_event_code, row.current_status)

\* A code that matches the second and the fourth event-code rule, with a raw
\* status that says something else.
C9_Witness ==
    /\ row.latest_event_code = <<"C", "L", "E", "A", "R", "E", "D", "_", "D", "E", "P", "A", "R", "T", "E", "D">>
    /\ row.current_status = <<"I", "n", " ", "T", "r", "a", "n", "s", "i", "t">>
    /\ derived = "Customs Released"

-----------------------------------------------------------------------------
(* C10 *)

NonEmptyStatuses == RawStatuses \ {NULL, <<>>}

\* C10 as stated: for every row with a non-empty latest event code and a
\* non-empty raw status text the label is the one the event code indicates,
\* whatever the raw status text.
C10_EventCodeAlwaysOverrides ==
    (derived # "" /\ truthy(row.latest_event_code) /\ truthy(row.current_status)) =>
        \A other \in NonEmptyStatuses :
            deriveStatus([row EXCEPT !.current_status = other]) = derived

\* C10 amended: for every row whose latest event code matches one of the
\* event-code rules (after uppercase and trim) and whose raw status text is
\* non-empty, the label is that of the first matching event-code rule,
\* whatever the raw status text.
C10_MatchingEventCodeOverrides ==
    LET c == trim(toUpperCase(orEmpty(row.latest_event_code)))
        byCode == {k \in 1..5 : EventRule(k, c)}
    IN (derived # "" /\ truthy(row.current_status) /\ byCode # {}) =>
          /\ derived = RuleLabel(FirstOf(byCode))
          /\ \A other \in NonEmptyStatuses :
                deriveStatus([row EXCEPT !.current_status = other]) = derived

\* current_status "In Transit" with latest_event_code "DELIVERED".
C10_Witness ==
    /\ row.latest_event_code = <<"D", "E", "L", "I", "V", "E", "R", "E", "D">>
    /\ row.current_status = <<"I", "n", " ", "T", "r", "a", "n", "s", "i", "t">>
    /\ derived = "Delivered"

-----------------------------------------------------------------------------
(* C11 *)

\* The ordinal 0..7 of the milestone an event's normalized code belongs to,
\* -1 when it belongs to none.
Ordinal(e) ==
    LET hit == {i \in 0..7 : normalizedCode(e) \in MILESTONES[i + 1].codes}
    IN IF hit = {} THEN -1 ELSE CHOOSE i \in hit : \A j \in hit : j <= i

\* The furthest milestone any event of the list has reached, 0 when none.
Furthest(evs) ==
    LET hit == {Ordinal(evs[k]) : k \in 1..Len(evs)} \ {-1}
    IN IF hit = {} THEN 0 ELSE CHOOSE i \in hit : \A j \in hit : j <= i

\* C11: the milestone index of every rendered event list is the highest
\* index in 0..7 of a milestone one of whose codes is among the normalized
\* event codes, and 0 when there is none; reordering or duplicating events
\* leaves it unchanged, adding an event of a lower ordinal than the current
\* index leaves it unchanged, and the codes {CARGO_RECEIVED, ATD} give 4.
C11_FurthestProgressWins ==
    progress.milestoneIndex # -1 =>
        /\ progress.milestoneIndex \in 0..7
        /\ progress.milestoneIndex = Furthest(progress.events)
        /\ progress.change \in {"reorder", "duplicate"}
              => progress.milestoneIndex = progress.before
        /\ progress.change = "add" /\ Ordinal(progress.added) \in 0..(progress.before - 1)
              => progress.milestoneIndex = progress.before
        /\ {progress.events[k].event_code : k \in 1..Len(progress.events)}
                = {CARGO_RECEIVED, ATD}
              => progress.milestoneIndex = 4

\* CARGO_RECEIVED arrives as the latest event of a shipment that departed.
C11_Witness ==
    /\ progress.change = "add"
    /\ progress.added.event_code = CARGO_RECEIVED
    /\ progress.before = 4
    /\ progress.milestoneIndex = 4
    /\ Len(progress.events) = 2

-----------------------------------------------------------------------------
(* C12 *)

\* C12: every list or detail request that starts after a change of the
\* membership table is authorized against the table as it is then, whatever
\* was answered before: the reads of the request succeeding, the detail
\* endpoint answers 403 for a stored shipment whose scope the caller does not
\* hold now and 200 for one whose scope the caller holds now, and the list
\* holds the shipments of the scopes the caller holds now and no others.
C12_AuthorizedAgainstNewMemberships ==
    (changes > 0 /\ Verified /\ ReadsOk) =>
        /\ (Answered("detail") /\ Stored(req.shipment_id) # {}) =>
              IF \E s \in Stored(req.shipment_id) : InScope(s, CallerEmail)
              THEN resp.status = 200
              ELSE resp.status = 403
        /\ Answered("list") =>
              /\ resp.status = 200
              /\ {resp.data[i].shipment_id : i \in 1..Len(resp.data)}
                    = {shipments[i].shipment_id :
                          i \in {j \in 1..Len(shipments) :
                                    InScope(shipments[j], CallerEmail)}}

-----------------------------------------------------------------------------
(* C13 *)

\* Where the callback has redirected to, once it has ended
Target == callback.redirects[1]

\* C13: the auth callback always ends, having redirected exactly once, to
\* the login surface or to the shipment list; after any failure (code
\* exchange error, error parameter with no session, setSession error, no
\* session at the final check, a thrown exception) the redirect goes to
\* login, and it goes to the shipment list only when the getSession just
\* before it returned a session.
C13_OneRedirect ==
    /\ [](/\ Len(callback.redirects) <= 1
          /\ callback.pc = "done" =>
                /\ Len(callback.redirects) = 1
                /\ Target \in {"/login", "/shipments"}
                /\ callback.failed \in {"exchange", "error", "setSession",
                                         "session", "thrown"}
                      => Target = "/login"
                /\ Target = "/shipments"
                      => callback.failed = "" /\ callback.checked /\ callback.session)
    /\ <>(callback.pc = "done")

\* The code was exchanged, then setSession reported an error.
C13_Witness ==
    /\ callback.pc = "done"
    /\ truthy(callback.code)
    /\ callback.session
    /\ callback.failed = "setSession"
    /\ callback.redirects = <<"/login">>

-----------------------------------------------------------------------------
(* C14 *)

\* C14: the sort state of the list page is (last_event_time, desc) until a
\* header is clicked; after any sequence of clicks, the last click, if on the
\* key that was active, kept the key and flipped the direction, and if on
\* another key, made that key active with direction asc for reference,
\* route and status and desc for eta_updated and last_event_time, whatever
\* the direction was.
C14_SortStateMachine ==
    LET click == listPage.click
    IN /\ click = NoClick =>
             listPage.sortKey = "last_event_time" /\ listPage.sortDir = "desc"
       /\ (click # NoClick /\ click.key = click.fromKey) =>
             /\ listPage.sortKey = click.fromKey
             /\ listPage.sortDir = (IF click.fromDir = "asc" THEN "desc" ELSE "asc")
       /\ (click # NoClick /\ click.key # click.fromKey) =>
             /\ listPage.sortKey = click.key
             /\ click.key \in {"reference", "route", "status"}
                   => listPage.sortDir = "asc"
             /\ click.key \in {"eta_updated", "last_event_time"}
                   => listPage.sortDir = "desc"

\* Reference was sorted descending when the route header was clicked.
C14_Witness ==
    /\ listPage.click = [key |-> "route", fromKey |-> "reference", fromDir |-> "desc"]
    /\ listPage.sortKey = "route"
    /\ listPage.sortDir = "asc"

-----------------------------------------------------------------------------
(* C15 *)

\* The time of a shown row under the active date key, NaN when the row has
\* no date or one that does not parse.
ShownTime(i) ==
    parseDateMs(IF listPage.sortKey = "eta_updated"
                THEN listPage.view[i].eta_updated
                ELSE listPage.view[i].last_event_time)

\* One list is a reordering of the other (the rows of a list are distinct).
Permutation(a, b) ==
    /\ Len(a) = Len(b)
    /\ {a[i] : i \in 1..Len(a)} = {b[i] : i \in 1..Len(b)}
    /\ Cardinality({a[i] : i \in 1..Len(a)}) = Len(a)

\* C15: with a date key active, in either direction, every shown row whose
\* date is null or does not parse comes after every row whose date parses,
\* the rows whose dates parse are in numeric order of their times for the
\* direction, and the shown rows are a permutation of the filtered rows.
C15_DateSort ==
    listPage.sortKey \in {"eta_updated", "last_event_time"} =>
        /\ \A i, j \in 1..Len(listPage.view) :
              i < j =>
                /\ isNaN(ShownTime(i)) => isNaN(ShownTime(j))
                /\ (~isNaN(ShownTime(i)) /\ ~isNaN(ShownTime(j))) =>
                      IF listPage.sortDir = "asc"
                      THEN ShownTime(i)[1] <= ShownTime(j)[1]
                      ELSE ShownTime(i)[1] >= ShownTime(j)[1]
        /\ Permutation(listPage.view, filtered(listPage.rows, listPage.query))

\* Ascending by last update: "2" before "10", the row without a date, which
\* came first in the response, last.
C15_Witness ==
    /\ listPage.sortKey = "last_event_time"
    /\ listPage.sortDir = "asc"
    /\ Len(listPage.view) = 3
    /\ isNaN(parseDateMs(listPage.rows[1].last_event_time))
    /\ ShownTime(1) = <<2>>
    /\ ShownTime(2) = <<10>>
    /\ isNaN(ShownTime(3))

-----------------------------------------------------------------------------
(* C16 *)

\* How a backend call of a page can fail: the fetch rejects, or the response
\* has an error status other than 401.
BackendFailures == {"network error"} \cup ErrorStatuses

\* C16: when the backend call of the list page or of the detail page has
\* failed with a network error or a non-401 error status, the page has ended
\* in an error state: it shows neither its loading text, nor a loaded result
\* (rows, a shipment), nor the text of an empty result, and it holds no
\* shipment data.
C16_FailureShownAsError ==
    /\ listPage.fetched \in BackendFailures =>
          /\ listPage.body \notin {"Loading shipments", "rows", "No shipments found."}
          /\ listPage.rows = <<>>
          /\ listPage.view = <<>>
    /\ detailPage.fetched \in BackendFailures =>
          /\ detailPage.body \notin {"Loading shipment", "shipment", "Shipment not found."}
          /\ detailPage.shipment = <<>>
          /\ detailPage.events = <<>>

=============================================================================
